---- MODULE Spec2Model ----
(***************************************************************************)
(* Model of compute-shader-playground (src/main.rs): a Bevy plugin that    *)
(* creates a storage image, binds it each frame and dispatches a compute   *)
(* pipeline from a render-graph node placed before the camera driver.      *)
(*                                                                         *)
(* The program's own code is setup, prepare_bind_group, the plugin's       *)
(* build/finish, ComputeShaderPipeline::from_world and                     *)
(* ComputeShaderNode::run.  The host engine appears as the frame loop that *)
(* calls them (extract, prepare assets, prepare bind groups, pipeline      *)
(* queue processing, render graph) and as the nondeterministic outcomes of *)
(* what it owns: when a GPU image becomes available and whether the queued *)
(* pipeline compiles.                                                      *)
(***************************************************************************)
EXTENDS Integers, Sequences, FiniteSets

\* ---------------------------------------------------------------- bounds
MaxFrames == 6

\* ------------------------------------------------------------- constants
SHADER_PATH == "shader.wgsl"
DISPLAY_FACTOR == 4
\* u32 division truncates; no value here leaves the u32 range
SIZE == <<1280 \div DISPLAY_FACTOR, 720 \div DISPLAY_FACTOR>>
WORKGROUP_SIZE == 8

\* Option<T> as a sequence of length at most one
None == <<>>
Some(x) == <<x>>
IsSome(o) == Len(o) = 1
Unwrap(o) == o[1]

ComputeShaderLabel == "ComputeShaderLabel"
CameraDriverLabel == "CameraDriverLabel"

VARIABLES
    pc,             \* position of the application: build, finish, startup, frame phases
    frame,          \* number of the frame being rendered (0 before the first)
    images,         \* main world: number of image assets added to Assets<Image>
    sprites,        \* main world: spawned sprites, each with its image handle
    cameras,        \* main world: number of Camera2d entities spawned
    mainImage,      \* main world: Option<ComputeShaderImage>
    setupRuns,      \* number of times the Startup system setup has run
    extractPlugins, \* resources registered with ExtractResourcePlugin
    renderSystems,  \* systems the plugin added to the Render schedule
    graphNodes,     \* render graph nodes
    graphEdges,     \* render graph node edges <<before, after>>
    renderImage,    \* render world: Option<ComputeShaderImage> (extracted copy)
    pendingImages,  \* render world: extracted images awaiting preparation
    gpuImages,      \* render world: RenderAssets<GpuImage> keys
    pipelineRes,    \* render world: Option<ComputeShaderPipeline>
    queued,         \* pipeline cache: descriptors queued, index = pipeline id
    cacheState,     \* pipeline cache: state of every queued pipeline
    bindGroup,      \* render world: Option<ComputeShaderBindGroup>
    encoder,        \* commands recorded on the frame's command encoder
    nodesRun,       \* render graph nodes run so far in this frame
    runResult       \* result of the last ComputeShaderNode::run of this frame

vars == <<pc, frame, images, sprites, cameras, mainImage, setupRuns,
          extractPlugins, renderSystems, graphNodes, graphEdges, renderImage,
          pendingImages, gpuImages, pipelineRes, queued, cacheState,
          bindGroup, encoder, nodesRun, runResult>>

mainVars == <<images, sprites, cameras, mainImage, setupRuns>>
appVars == <<extractPlugins, renderSystems, graphNodes, graphEdges>>
cacheVars == <<pipelineRes, queued, cacheState>>
assetVars == <<renderImage, pendingImages, gpuImages>>
graphVars == <<encoder, nodesRun, runResult>>

Cmd(op, args) == [op |-> op, args |-> args]

\* ------------------------------------------------------------------ Init
Init ==
    /\ pc = "build"
    /\ frame = 0
    /\ images = 0
    /\ sprites = <<>>
    /\ cameras = 0
    /\ mainImage = None
    /\ setupRuns = 0
    /\ extractPlugins = {}
    /\ renderSystems = {}
    /\ graphNodes = {CameraDriverLabel}
    /\ graphEdges = {}
    /\ renderImage = None
    /\ pendingImages = {}
    /\ gpuImages = {}
    /\ pipelineRes = None
    /\ queued = <<>>
    /\ cacheState = <<>>
    /\ bindGroup = None
    /\ encoder = <<>>
    /\ nodesRun = <<>>
    /\ runResult = "none"

\* ------------------------------------------------ ComputeShaderPlugin::build
\* variant: the node is added without its edge to the camera driver
BuildEdges_noEdge == {}

BuildEdges == {<<ComputeShaderLabel, CameraDriverLabel>>}

Build ==
    /\ pc = "build"
    /\ extractPlugins' = extractPlugins \cup {"ComputeShaderImage"}
    /\ renderSystems' = renderSystems \cup
           {[system |-> "prepare_bind_group", set |-> "PrepareBindGroups"]}
    /\ graphNodes' = graphNodes \cup {ComputeShaderLabel}
    /\ graphEdges' = graphEdges \cup BuildEdges
    /\ pc' = "finish"
    /\ UNCHANGED <<frame, mainVars, assetVars, cacheVars, bindGroup, graphVars>>

\* --------------------------------------- ComputeShaderPipeline::from_world
BindGroupLayoutImage ==
    [label |-> "Image",
     entries |-> <<[binding |-> 0, visibility |-> "COMPUTE",
                    ty |-> "texture_storage_2d", format |-> "Rgba8Unorm",
                    access |-> "ReadWrite"]>>]

\* variant: the pipeline is queued for another entry point
PipelineDescriptor_update(layout) ==
    [label |-> None,
     layout |-> <<layout>>,
     push_constant_ranges |-> <<>>,
     shader |-> SHADER_PATH,
     shader_defs |-> <<>>,
     entry_point |-> "update",
     zero_initialize_workgroup_memory |-> FALSE]

PipelineDescriptor(layout) ==
    [label |-> None,
     layout |-> <<layout>>,
     push_constant_ranges |-> <<>>,
     shader |-> SHADER_PATH,
     shader_defs |-> <<>>,
     entry_point |-> "init",
     zero_initialize_workgroup_memory |-> FALSE]

\* queue_compute_pipeline: the id is the index of the new entry
QueueComputePipeline(desc) ==
    /\ queued' = Append(queued, desc)
    /\ cacheState' = Append(cacheState, "Queued")

\* Plugin::finish: init_resource::<ComputeShaderPipeline>() runs from_world
\* only when the resource is absent
Finish ==
    /\ pc = "finish"
    /\ IF IsSome(pipelineRes)
         THEN UNCHANGED cacheVars
         ELSE /\ QueueComputePipeline(PipelineDescriptor(BindGroupLayoutImage))
              /\ pipelineRes' = Some([bind_group_layout |-> BindGroupLayoutImage,
                                      pipeline |-> Len(queued) + 1])
    /\ pc' = "startup"
    /\ UNCHANGED <<frame, mainVars, appVars, assetVars, bindGroup, graphVars>>

\* ----------------------------------------------------------------- setup
\* images.add returns a handle to a new asset; one handle is shared by the
\* sprite and the ComputeShaderImage resource
\* variant: the resource gets the handle of a second copy of the image
SetupHandles_twoAssets(n) == [sprite |-> n + 1, resource |-> n + 2, added |-> 2]

SetupHandles(n) == [sprite |-> n + 1, resource |-> n + 1, added |-> 1]

Setup ==
    /\ pc = "startup"
    /\ LET h == SetupHandles(images) IN
         /\ images' = images + h.added
         /\ sprites' = Append(sprites,
                [image |-> h.sprite,
                 custom_size |-> Some(<<SIZE[1], SIZE[2]>>),
                 scale |-> DISPLAY_FACTOR])
         /\ cameras' = cameras + 1
         /\ mainImage' = Some([texture |-> h.resource])
    /\ setupRuns' = setupRuns + 1
    /\ frame' = 1
    /\ pc' = "extract"
    /\ UNCHANGED <<appVars, assetVars, cacheVars, bindGroup, graphVars>>

\* ------------------------------------------------------- engine: extract
\* ExtractResourcePlugin<ComputeShaderImage> clones the main-world resource
\* into the render world; the asset plugin hands newly added images over
Range(s) == {s[i] : i \in DOMAIN s}

ExtractResource(main, render) ==
    IF "ComputeShaderImage" \in extractPlugins /\ IsSome(main) THEN main ELSE render

Extract ==
    /\ pc = "extract"
    /\ renderImage' = ExtractResource(mainImage, renderImage)
    /\ pendingImages' = pendingImages \cup ((1 .. images) \ gpuImages)
    /\ encoder' = <<>>
    /\ nodesRun' = <<>>
    /\ runResult' = "none"
    /\ pc' = "prepare_assets"
    /\ UNCHANGED <<frame, mainVars, appVars, gpuImages, cacheVars, bindGroup>>

\* ------------------------------------------------ engine: prepare assets
\* RenderAssets<GpuImage> gains an entry for every image the engine prepared
\* in this frame; an image it did not get to stays pending for a later frame
PrepareAssets ==
    /\ pc = "prepare_assets"
    /\ \E done \in SUBSET pendingImages :
         /\ gpuImages' = gpuImages \cup done
         /\ pendingImages' = pendingImages \ done
    /\ pc' = "prepare_bind_groups"
    /\ UNCHANGED <<frame, mainVars, appVars, renderImage, cacheVars, bindGroup,
                   graphVars>>

\* ------------------------------------------------------ prepare_bind_group
\* RenderAssets::get
GpuImageGet(gpu, handle) ==
    IF handle \in gpu THEN Some([texture_view |-> handle]) ELSE None

\* RenderDevice::create_bind_group with BindGroupEntries::sequential
CreateBindGroup(layout, views, fr) ==
    [layout |-> layout,
     entries |-> [i \in DOMAIN views |-> [binding |-> i - 1, resource |-> views[i]]],
     created |-> fr]

\* variant: the bind group is created once and kept for later frames
prepare_bind_group_once(pipeline, gpu_image, compute_shader_image, fr) ==
    LET view == GpuImageGet(gpu_image, compute_shader_image.texture) IN
    IF ~IsSome(view)
      THEN [panic |-> TRUE, insert |-> None]
      ELSE IF IsSome(bindGroup)
        THEN [panic |-> FALSE, insert |-> bindGroup]
        ELSE [panic |-> FALSE,
              insert |-> Some(CreateBindGroup(pipeline.bind_group_layout,
                                              <<Unwrap(view).texture_view>>, fr))]

\* the system body: Option::unwrap panics on None; otherwise the command
\* queue inserts the new ComputeShaderBindGroup
prepare_bind_group(pipeline, gpu_image, compute_shader_image, fr) ==
    LET view == GpuImageGet(gpu_image, compute_shader_image.texture) IN
    IF ~IsSome(view)
      THEN [panic |-> TRUE, insert |-> None]
      ELSE [panic |-> FALSE,
            insert |-> Some(CreateBindGroup(pipeline.bind_group_layout,
                                            <<Unwrap(view).texture_view>>, fr))]

\* the system as scheduled in RenderSet::PrepareBindGroups: a missing Res
\* parameter fails the system, as does the panic in its body
PrepareBindGroups ==
    /\ pc = "prepare_bind_groups"
    /\ IF \A s \in renderSystems : s.system # "prepare_bind_group"
         THEN /\ pc' = "process_queue"
              /\ UNCHANGED bindGroup
         ELSE IF ~IsSome(pipelineRes) \/ ~IsSome(renderImage)
           THEN /\ pc' = "panicked"
                /\ UNCHANGED bindGroup
           ELSE LET r == prepare_bind_group(Unwrap(pipelineRes), gpuImages,
                                            Unwrap(renderImage), frame) IN
                IF r.panic
                  THEN /\ pc' = "panicked"
                       /\ UNCHANGED bindGroup
                  ELSE /\ pc' = "process_queue"
                       /\ bindGroup' = r.insert
    /\ UNCHANGED <<frame, mainVars, appVars, assetVars, cacheVars, graphVars>>

\* ------------------------------------- engine: pipeline cache processing
\* A queued pipeline stays queued (shader not loaded yet), compiles, or
\* fails for good; compiled and failed pipelines keep their state
ProcessQueue ==
    /\ pc = "process_queue"
    /\ \E o \in {"Queued", "Ok", "Err"} :
         cacheState' = [i \in DOMAIN cacheState |->
                          IF cacheState[i] = "Queued" THEN o ELSE cacheState[i]]
    /\ pc' = "graph"
    /\ UNCHANGED <<frame, mainVars, appVars, assetVars, pipelineRes, queued,
                   bindGroup, graphVars>>

\* PipelineCache::get_compute_pipeline
GetComputePipeline(cache, id) ==
    IF id \in DOMAIN cache /\ cache[id] = "Ok" THEN Some([id |-> id]) ELSE None

\* ---------------------------------------------------- ComputeShaderNode::run
\* variant: the grid is rounded up instead of truncated
DispatchGrid_ceil ==
    <<(SIZE[1] + WORKGROUP_SIZE - 1) \div WORKGROUP_SIZE,
      (SIZE[2] + WORKGROUP_SIZE - 1) \div WORKGROUP_SIZE, 1>>

DispatchGrid ==
    <<SIZE[1] \div WORKGROUP_SIZE, SIZE[2] \div WORKGROUP_SIZE, 1>>

\* variant: the dispatch is recorded before the pipeline is set
ComputePass_dispatchFirst(bind_group, cpipeline) ==
    << Cmd("begin_compute_pass", <<>>),
       Cmd("set_bind_group", <<0, bind_group>>),
       Cmd("dispatch_workgroups", DispatchGrid),
       Cmd("set_pipeline", <<cpipeline.id>>),
       Cmd("end_compute_pass", <<>>) >>

\* variant: the bind group is never set in the pass
ComputePass_noBindGroup(bind_group, cpipeline) ==
    << Cmd("begin_compute_pass", <<>>),
       Cmd("set_pipeline", <<cpipeline.id>>),
       Cmd("dispatch_workgroups", DispatchGrid),
       Cmd("end_compute_pass", <<>>) >>

ComputePass(bind_group, cpipeline) ==
    << Cmd("begin_compute_pass", <<>>),
       Cmd("set_bind_group", <<0, bind_group>>),
       Cmd("set_pipeline", <<cpipeline.id>>),
       Cmd("dispatch_workgroups", DispatchGrid),
       Cmd("end_compute_pass", <<>>) >>

\* variant: the pass is recorded without asking the cache for the pipeline
run_unchecked(bind_group, pipeline_cache, pipeline, enc) ==
    IF ~IsSome(bind_group) \/ ~IsSome(pipeline)
      THEN [panic |-> TRUE, ret |-> "none", encoder |-> enc]
      ELSE [panic |-> FALSE,
            ret |-> "Ok",
            encoder |-> enc \o ComputePass(Unwrap(bind_group),
                                            [id |-> Unwrap(pipeline).pipeline])]

\* World::resource panics when the resource is absent
run(bind_group, pipeline_cache, pipeline, enc) ==
    IF ~IsSome(bind_group) \/ ~IsSome(pipeline)
      THEN [panic |-> TRUE, ret |-> "none", encoder |-> enc]
      ELSE LET cpipeline == GetComputePipeline(pipeline_cache,
                                               Unwrap(pipeline).pipeline) IN
           [panic |-> FALSE,
            ret |-> "Ok",
            encoder |-> IF IsSome(cpipeline)
                          THEN enc \o ComputePass(Unwrap(bind_group), Unwrap(cpipeline))
                          ELSE enc]

\* ------------------------------------------------- engine: render graph
\* a node runs once per frame, after every node with an edge into it
Ready(n) ==
    /\ n \in graphNodes
    /\ n \notin Range(nodesRun)
    /\ \A e \in graphEdges : e[2] = n => e[1] \in Range(nodesRun)

RunComputeNode ==
    /\ pc = "graph"
    /\ Ready(ComputeShaderLabel)
    /\ LET r == run(bindGroup, cacheState, pipelineRes, encoder) IN
         IF r.panic
           THEN /\ pc' = "panicked"
                /\ runResult' = "panic"
                /\ UNCHANGED <<encoder, nodesRun>>
           ELSE /\ pc' = pc
                /\ runResult' = r.ret
                /\ encoder' = r.encoder
                /\ nodesRun' = Append(nodesRun, ComputeShaderLabel)
    /\ UNCHANGED <<frame, mainVars, appVars, assetVars, cacheVars, bindGroup>>

\* the camera driver draws the sprites, sampling their images
RunCameraDriver ==
    /\ pc = "graph"
    /\ Ready(CameraDriverLabel)
    /\ encoder' = Append(encoder,
           Cmd("camera_driver", [i \in DOMAIN sprites |-> sprites[i].image]))
    /\ nodesRun' = Append(nodesRun, CameraDriverLabel)
    /\ UNCHANGED <<pc, frame, mainVars, appVars, assetVars, cacheVars, bindGroup,
                   runResult>>

\* the frame is submitted and the next application update starts
EndFrame ==
    /\ pc = "graph"
    /\ graphNodes \subseteq Range(nodesRun)
    /\ frame < MaxFrames
    /\ frame' = frame + 1
    /\ pc' = "extract"
    /\ UNCHANGED <<mainVars, appVars, assetVars, cacheVars, bindGroup, graphVars>>

Next ==
    \/ Build
    \/ Finish
    \/ Setup
    \/ Extract
    \/ PrepareAssets
    \/ PrepareBindGroups
    \/ ProcessQueue
    \/ RunComputeNode
    \/ RunCameraDriver
    \/ EndFrame

Spec == Init /\ [][Next]_vars

\* =========================================================== properties
\* what a frame's command encoder holds
Ops(op) == {i \in DOMAIN encoder : encoder[i].op = op}
PassOps == {"begin_compute_pass", "set_bind_group", "set_pipeline",
            "dispatch_workgroups", "end_compute_pass"}
ComputeRan == ComputeShaderLabel \in Range(nodesRun)
CameraRan == CameraDriverLabel \in Range(nodesRun)
RunExecuted == pc \in {"graph", "panicked"} /\ runResult # "none"
PipelineCompiled ==
    /\ IsSome(pipelineRes)
    /\ Unwrap(pipelineRes).pipeline \in DOMAIN cacheState
    /\ cacheState[Unwrap(pipelineRes).pipeline] = "Ok"
\* the image setup created, as the sprite shows it
StorageImage == sprites[1].image
\* a pass whose bind group 0 holds the view of the storage image
HasPassOnImage ==
    /\ Ops("begin_compute_pass") # {}
    /\ \E i \in Ops("set_bind_group") :
         /\ encoder[i].args[1] = 0
         /\ Len(encoder[i].args[2].entries) = 1
         /\ encoder[i].args[2].entries[1].resource = StorageImage
\* the begin_compute_pass that opens the pass command i belongs to (0: none)
PassOf(i) ==
    LET begins == {b \in Ops("begin_compute_pass") : b < i}
        open == {b \in begins :
                   \A e \in Ops("end_compute_pass") : ~(b < e /\ e < i)}
    IN IF open = {} THEN 0 ELSE CHOOSE b \in open : \A c \in open : c <= b

\* C1: when run executes in a frame whose pipeline is not compiled, it
\* returns Ok(()) and records no compute pass, bind group, pipeline or
\* dispatch on the command encoder
C1_SkipWhenNotCompiled ==
    (RunExecuted /\ ~PipelineCompiled) =>
        /\ runResult = "Ok"
        /\ \A i \in DOMAIN encoder : encoder[i].op \notin PassOps

C1_Witness ==
    /\ ComputeRan
    /\ runResult = "Ok"
    /\ IsSome(bindGroup)
    /\ ~PipelineCompiled

\* C2: in every frame in which run executes with the pipeline compiled, the
\* encoder holds exactly one compute pass with exactly one dispatch, and
\* its grid is (40, 22, 1) whatever the frame
C2_OneFixedDispatch ==
    (RunExecuted /\ PipelineCompiled) =>
        /\ Cardinality(Ops("begin_compute_pass")) = 1
        /\ Cardinality(Ops("end_compute_pass")) = 1
        /\ Cardinality(Ops("dispatch_workgroups")) = 1
        /\ \A i \in Ops("dispatch_workgroups") : encoder[i].args = <<40, 22, 1>>

C2_Witness ==
    /\ ComputeRan
    /\ PipelineCompiled
    /\ frame = MaxFrames
    /\ Cardinality(Ops("dispatch_workgroups")) = 1

\* C3 as claimed: every dispatched grid, at WORKGROUP_SIZE invocations per
\* workgroup and axis, reaches every pixel of the SIZE.0 x SIZE.1 image
C3_GridCoversImage ==
    \A i \in Ops("dispatch_workgroups") :
        /\ encoder[i].args[1] * WORKGROUP_SIZE >= SIZE[1]
        /\ encoder[i].args[2] * WORKGROUP_SIZE >= SIZE[2]

\* C4 as claimed: every frame the node has run in holds a compute pass
\* bound to the storage image
C4_PassEveryFrame ==
    ComputeRan => HasPassOnImage

\* C4: a frame the node has run in holds a compute pass whose bind group 0
\* is the storage image exactly when the pipeline is compiled in that frame
C4_PassWhenCompiled ==
    ComputeRan => (PipelineCompiled <=> HasPassOnImage)

C4_Witness ==
    /\ ComputeRan
    /\ HasPassOnImage
    /\ frame >= 2
    /\ CameraRan

\* C5 as claimed: prepare_bind_group and run never panic, whatever the
\* state of RenderAssets<GpuImage> and of the render-world resources
C5_NeverPanics ==
    pc # "panicked"

\* C6: once the prepare step of a frame is over, ComputeShaderBindGroup is
\* a bind group created in that frame, with the pipeline's layout and the
\* view of the extracted image as its only entry, and it is the bind group
\* every compute pass of the frame sets
C6_BindGroupOfThisFrame ==
    (pc \in {"process_queue", "graph"} \/ RunExecuted) =>
        /\ IsSome(bindGroup)
        /\ Unwrap(bindGroup).created = frame
        /\ Unwrap(bindGroup).layout = Unwrap(pipelineRes).bind_group_layout
        /\ Unwrap(bindGroup).entries =
               <<[binding |-> 0, resource |-> Unwrap(renderImage).texture]>>
        /\ \A i \in Ops("set_bind_group") :
               /\ encoder[i].args[2] = Unwrap(bindGroup)
               /\ encoder[i].args[2].created = frame

C6_Witness ==
    /\ frame >= 2
    /\ pc = "graph"
    /\ \E i \in Ops("set_bind_group") : encoder[i].args[2].created = frame

\* C7: setup has run exactly once in every state after startup and has
\* created one image, one sprite, one camera and one ComputeShaderImage;
\* the resource, its extracted copy and the sprite hold the same handle,
\* and that image is the one every compute pass is bound to
C7_SetupOnceSameImage ==
    IF pc \in {"build", "finish", "startup"}
      THEN setupRuns = 0 /\ images = 0 /\ sprites = <<>> /\ cameras = 0
           /\ mainImage = None /\ renderImage = None
      ELSE /\ setupRuns = 1
           /\ images = 1
           /\ Len(sprites) = 1
           /\ cameras = 1
           /\ IsSome(mainImage)
           /\ Unwrap(mainImage).texture = sprites[1].image
           /\ IsSome(renderImage) => Unwrap(renderImage).texture = sprites[1].image
           /\ \A i \in Ops("set_bind_group") :
                  \A j \in DOMAIN encoder[i].args[2].entries :
                      encoder[i].args[2].entries[j].resource = sprites[1].image
           /\ \A i \in Ops("camera_driver") :
                  encoder[i].args = <<Unwrap(mainImage).texture>>

C7_Witness ==
    /\ frame >= 2
    /\ IsSome(renderImage)
    /\ Ops("set_bind_group") # {}
    /\ Ops("camera_driver") # {}

\* C8: every dispatch lies in an open pass in which bind group 0 was set,
\* then the compiled pipeline, before the dispatch; every pass that was
\* begun holds a dispatch
C8_PassCommandOrder ==
    /\ \A d \in Ops("dispatch_workgroups") :
         /\ PassOf(d) # 0
         /\ \E b \in Ops("set_bind_group"), p \in Ops("set_pipeline") :
              /\ PassOf(d) < b /\ b < p /\ p < d
              /\ encoder[b].args[1] = 0
              /\ encoder[p].args[1] \in DOMAIN cacheState
              /\ cacheState[encoder[p].args[1]] = "Ok"
    /\ \A b \in Ops("begin_compute_pass") :
         \E d \in Ops("dispatch_workgroups") : PassOf(d) = b

C8_Witness ==
    /\ Ops("dispatch_workgroups") # {}
    /\ Ops("set_pipeline") # {}
    /\ pc = "graph"

\* C9: in every frame the camera driver node runs only after
\* ComputeShaderNode::run has finished, so nothing the compute node records
\* comes after the camera driver's commands
C9_ComputeBeforeCamera ==
    /\ CameraRan => ComputeRan
    /\ \A c \in Ops("camera_driver") :
         \A i \in DOMAIN encoder : encoder[i].op \in PassOps => i < c
    /\ \A i, j \in DOMAIN nodesRun :
         (nodesRun[i] = ComputeShaderLabel /\ nodesRun[j] = CameraDriverLabel)
             => i < j

C9_Witness ==
    /\ CameraRan
    /\ ComputeRan
    /\ PipelineCompiled
    /\ Ops("camera_driver") # {}

\* C10: from Plugin::finish on exactly one pipeline is queued, with entry
\* point "init" and the single read-write Rgba8Unorm storage-texture layout,
\* and ComputeShaderPipeline keeps that pipeline id and layout in every frame
C10_QueuedOnce ==
    IF pc = "build" \/ pc = "finish"
      THEN queued = <<>> /\ pipelineRes = None
      ELSE /\ Len(queued) = 1
           /\ Len(cacheState) = 1
           /\ queued[1].entry_point = "init"
           /\ queued[1].shader = "shader.wgsl"
           /\ Len(queued[1].layout) = 1
           /\ Len(queued[1].layout[1].entries) = 1
           /\ queued[1].layout[1].entries[1].ty = "texture_storage_2d"
           /\ queued[1].layout[1].entries[1].format = "Rgba8Unorm"
           /\ queued[1].layout[1].entries[1].access = "ReadWrite"
           /\ IsSome(pipelineRes)
           /\ Unwrap(pipelineRes).pipeline = 1
           /\ Unwrap(pipelineRes).bind_group_layout = queued[1].layout[1]
           /\ \A i \in Ops("set_pipeline") : encoder[i].args = <<1>>

C10_Witness ==
    /\ frame >= 3
    /\ pc = "graph"
    /\ ComputeRan
    /\ Len(queued) = 1

====
